---- MODULE Spec2Model ----
(***************************************************************************)
(* The consensus inference pipeline of TeslaMCQTreehacks:                  *)
(*   three_times.py          sampling stage (3 attempts per question)      *)
(*   three_times_preview.py  reasoning stage over the sampled attempts     *)
(*   reasoner.py             reasoning stage over a single description     *)
(*   fill_gaps.py            backfill restricted to an allow-list of ids   *)
(*   extract_answers.py      answer extraction and gap detection           *)
(* Each script is one run of the state machine, selected by `prog`.        *)
(*                                                                         *)
(* Conventions.  A Python dict is a record holding exactly the keys the    *)
(* code sets.  An optional value (a value or None) is a sequence of        *)
(* length at most one: None is << >>, Some(x) is << x >>.  A text is a     *)
(* sequence of tokens; the tags "<answer>" and "</answer>" are single      *)
(* tokens, every other token is one character.  An identifier is the       *)
(* sequence of its characters ("01" is << "0", "1" >>).  A directory is a   *)
(* function from the file identifier (the file name up to "_result.json")  *)
(* to the JSON content of the file.                                        *)
(***************************************************************************)
EXTENDS Integers, Sequences, FiniteSets, TLC

VARIABLES
    prog,             \* the script that is running
    pc,               \* position of main()
    questions,        \* rows of questions.csv, in order (the id column)
    frames,           \* ids that have frames under extracted_frames/
    K,                \* max_concurrent_requests
    permits,          \* value of self.semaphore
    coros,            \* the coroutines handed to asyncio.gather
    qi,               \* index of the row the sequential loops are at
    video_ids,        \* fill_gaps: the allow-list (optional set of ids)
    initial_answers,  \* directory initial_answers/
    final_answers,    \* directory final_answers/
    gpt4v_results,    \* directory gpt4v_results_new_prompt/
    calls,            \* remote inference calls issued so far, per id
    writes,           \* result files written in this run, per id
    missing_ids,      \* extract_answers: the ids reported missing
    answers_csv,      \* extract_answers: rows of answers.csv
    runs,             \* extract_answers: completed runs of process_files
    printed           \* extract_answers: messages printed by the last run

vars == << prog, pc, questions, frames, K, permits, coros, qi, video_ids,
           initial_answers, final_answers, gpt4v_results, calls, writes,
           missing_ids, answers_csv, runs, printed >>

----------------------------------------------------------------------------
(* Bounds of the model *)

MaxTasks == 2
MaxK == 2
MaxRuns == 2
MaxText == 5
MaxPairs == 2

(* Program constants *)

AttemptCount == 3
MaxConcurrentRequests == 5
RangeLo == 1
RangeHi == 251

----------------------------------------------------------------------------
(* Values *)

None == << >>
Some(x) == << x >>

EmptyDir == [f \in {} |-> f]

Digits == << "0", "1", "2", "3", "4", "5", "6", "7", "8", "9" >>

\* the two-character, zero-padded id of row n of questions.csv
VideoId(n) == << Digits[(n \div 10) + 1], Digits[(n % 10) + 1] >>

TaskIds == { VideoId(n) : n \in 1..(MaxTasks + 1) }

\* responses of the model, as token sequences
TextC == << "<answer>", "C", "</answer>" >>
TextNoTag == << "x" >>

\* what the inference endpoint can do with one request
Reply(ok, content, msg) == [ok |-> ok, content |-> content, msg |-> msg]
ReplyText(t) == Reply(TRUE, Some(t), "")
ReplyNoContent == Reply(TRUE, None, "")
ReplyError == Reply(FALSE, None, "APIError")

\* a sampling call answers with text or fails; the answer without content
\* (message.content is null) is enumerated for the first attempt only
SamplingReplies(attempt) ==
    { ReplyText(TextC), ReplyError }
    \cup (IF attempt = 1 THEN { ReplyNoContent } ELSE {})
ReasoningReplies == { ReplyText(TextC), ReplyText(TextNoTag), ReplyError }

ZeroCount == [id \in {} |-> 0]
CountOf(f, id) == IF id \in DOMAIN f THEN f[id] ELSE 0
Bump(f, id) == (id :> (CountOf(f, id) + 1)) @@ f
WriteFileMut(dir, id, content) == dir
WriteFile(dir, id, content) == (id :> content) @@ dir

----------------------------------------------------------------------------
(* asyncio.Semaphore as used by `async with self.semaphore` *)

SemaphoreFreeMut(p) == TRUE
SemaphoreFreeStrict(p) == p > 1
SemaphoreFreeOrZero(p) == p >= 0
SemaphoreFree(p) == p > 0

\* leaving the `async with` block, by return or by exception
ReleaseMut(p) == p
Release(p) == p + 1

InFlight == { i \in DOMAIN coros : coros[i].st = "inflight" }
AllDone == \A i \in DOMAIN coros : coros[i].st = "done"

NewCoro(id) == [video_id |-> id, st |-> "waiting", result |-> None]

----------------------------------------------------------------------------
(* three_times.py *)

\* get_frame_paths and `if not frame_paths`: frames exist for the id
HasFramesMut(fr, id) == TRUE
HasFrames(fr, id) == id \in fr

\* process_question: the dict returned after a completed remote call
SamplingResponse(id, reply) ==
    [video_id |-> id, answer |-> reply.content, finish_reason |-> Some("stop")]

\* process_question: the dict returned from the except branch
SamplingFailure(id, msg) == [video_id |-> id, error |-> msg]

\* dict.get(key): the value, or None when the key is absent
Get(d, key) == IF key \in DOMAIN d THEN d[key] ELSE None

AttemptDataMut(i, result) ==
    [attempt_number |-> i,
     answer |-> Some(TextNoTag),
     finish_reason |-> Get(result, "finish_reason"),
     error |-> IF "error" \in DOMAIN result THEN Some(result.error) ELSE None]

\* main: one attempt entry per gathered result, numbered from 1
AttemptData(i, result) ==
    [attempt_number |-> i,
     answer |-> IF "answer" \in DOMAIN result THEN result.answer ELSE None,
     finish_reason |-> Get(result, "finish_reason"),
     error |-> IF "error" \in DOMAIN result THEN Some(result.error) ELSE None]

CombineResultsMut(question_results) ==
    LET ok == SelectSeq(question_results, LAMBDA r : "error" \notin DOMAIN r)
    IN [video_id |-> question_results[1].video_id,
        attempts |-> [i \in 1..Len(ok) |-> AttemptData(i, ok[i])]]
CombineResults(question_results) ==
    [video_id |-> question_results[1].video_id,
     attempts |-> [i \in 1..Len(question_results) |->
                      AttemptData(i, question_results[i])]]

GatheredResults == [i \in DOMAIN coros |-> coros[i].result[1]]

\* the state when main enters its loop, for the limits `limits` given to
\* the processor
InitSamplingWith(limits) ==
    /\ prog = "three_times"
    /\ pc = "loop"
    /\ \E n \in 0..MaxTasks : questions = [i \in 1..n |-> VideoId(i)]
    /\ frames \in SUBSET { questions[i] : i \in DOMAIN questions }
    /\ K \in limits
    /\ permits = K
    /\ coros = << >>
    /\ qi = 1
    /\ video_ids = None
    /\ initial_answers = EmptyDir
    /\ final_answers = EmptyDir
    /\ gpt4v_results = EmptyDir
    /\ calls = ZeroCount
    /\ writes = ZeroCount
    /\ missing_ids = {}
    /\ answers_csv = << >>
    /\ runs = 0
    /\ printed = {}

InitSampling == InitSamplingWith(1..MaxK)

\* main, lines 193-197: the coroutines created for one question
FanOutMut(id) == << NewCoro(id) >>
FanOut(id) == [a \in 1..AttemptCount |-> NewCoro(id)]

\* main, lines 192-200: three coroutines for the same question, then gather
SpawnAttempts ==
    /\ prog = "three_times" /\ pc = "loop" /\ qi <= Len(questions)
    /\ coros' = FanOut(questions[qi])
    /\ pc' = "gather"
    /\ UNCHANGED << prog, questions, frames, K, permits, qi, video_ids,
                    initial_answers, final_answers, gpt4v_results, calls,
                    writes, missing_ids, answers_csv, runs, printed >>

\* process_question up to its first suspension: the semaphore is entered,
\* a question without frames fails at once, otherwise the request is sent
SamplingAcquire(i) ==
    /\ prog = "three_times" /\ pc = "gather"
    /\ i \in DOMAIN coros /\ coros[i].st = "waiting"
    /\ SemaphoreFree(permits)
    /\ LET id == coros[i].video_id IN
       IF ~HasFrames(frames, id)
       THEN /\ coros' = [coros EXCEPT ![i].st = "done",
                            ![i].result = Some(SamplingFailure(id, "No frames found"))]
            /\ UNCHANGED << permits, calls >>
       ELSE /\ coros' = [coros EXCEPT ![i].st = "inflight"]
            /\ permits' = permits - 1
            /\ calls' = Bump(calls, id)
    /\ UNCHANGED << prog, pc, questions, frames, K, qi, video_ids,
                    initial_answers, final_answers, gpt4v_results, writes,
                    missing_ids, answers_csv, runs, printed >>

\* process_question from the return of the remote call to its own return
SamplingComplete(i) ==
    /\ prog = "three_times" /\ pc = "gather"
    /\ i \in DOMAIN coros /\ coros[i].st = "inflight"
    /\ \E reply \in SamplingReplies(i) :
         LET id == coros[i].video_id
             result == IF reply.ok THEN SamplingResponse(id, reply)
                                   ELSE SamplingFailure(id, reply.msg)
         IN coros' = [coros EXCEPT ![i].st = "done", ![i].result = Some(result)]
    /\ permits' = Release(permits)
    /\ UNCHANGED << prog, pc, questions, frames, K, qi, video_ids,
                    initial_answers, final_answers, gpt4v_results, calls,
                    writes, missing_ids, answers_csv, runs, printed >>

\* main, lines 200-226: gather returns, the record is combined and saved
SaveRecord ==
    /\ prog = "three_times" /\ pc = "gather" /\ AllDone
    /\ LET combined == CombineResults(GatheredResults)
           id == combined.video_id
       IN /\ initial_answers' = WriteFile(initial_answers, id, combined)
          /\ writes' = Bump(writes, id)
    /\ coros' = << >>
    /\ qi' = qi + 1
    /\ pc' = "loop"
    /\ UNCHANGED << prog, questions, frames, K, permits, video_ids,
                    final_answers, gpt4v_results, calls, missing_ids,
                    answers_csv, runs, printed >>

SamplingFinish ==
    /\ prog = "three_times" /\ pc = "loop" /\ qi > Len(questions)
    /\ pc' = "done"
    /\ UNCHANGED << prog, questions, frames, K, permits, coros, qi, video_ids,
                    initial_answers, final_answers, gpt4v_results, calls,
                    writes, missing_ids, answers_csv, runs, printed >>

\* the process is terminated while main is suspended: in gather with a
\* coroutine still to return, or in the blocking call of fill_gaps.py
Terminate ==
    /\ pc = "call" \/ (pc = "gather" /\ ~AllDone)
    /\ pc' = "killed"
    /\ UNCHANGED << prog, questions, frames, K, permits, coros, qi, video_ids,
                    initial_answers, final_answers, gpt4v_results, calls,
                    writes, missing_ids, answers_csv, runs, printed >>

NextSampling ==
    \/ SpawnAttempts
    \/ \E i \in 1..AttemptCount : SamplingAcquire(i)
    \/ \E i \in 1..AttemptCount : SamplingComplete(i)
    \/ SaveRecord
    \/ SamplingFinish
    \/ Terminate

SpecSampling == InitSampling /\ [][NextSampling]_vars

\* three_times.py with the limit its main passes to the processor
InitSamplingMain == InitSamplingWith({ MaxConcurrentRequests })

SpecSamplingMain == InitSamplingMain /\ [][NextSampling]_vars

\* three_times.py with a limit below, or at the value of main above, the
\* number of attempts
InitSamplingAny == InitSamplingWith((1..MaxK) \cup { MaxConcurrentRequests })

SpecSamplingAny == InitSamplingAny /\ [][NextSampling]_vars

----------------------------------------------------------------------------
(* three_times_preview.py and reasoner.py *)

\* the records the earlier stages leave in initial_answers/ for one id:
\* three_times.py writes CombineResults of three results, fill_gaps.py
\* style scripts write a single response or a single error
SampledOk(id) == SamplingResponse(id, ReplyText(TextC))
SampledEmpty(id) == SamplingResponse(id, ReplyNoContent)
SampledErr(id) == SamplingFailure(id, "APIError")
SampledNoFrames(id) == SamplingFailure(id, "No frames found")

SamplingRecords(id) ==
    { CombineResults(rs) : rs \in
        { << SampledOk(id), SampledOk(id), SampledOk(id) >>,
          << SampledErr(id), SampledOk(id), SampledOk(id) >>,
          << SampledOk(id), SampledErr(id), SampledErr(id) >>,
          << SampledErr(id), SampledErr(id), SampledErr(id) >>,
          << SampledEmpty(id), SampledErr(id), SampledErr(id) >>,
          << SampledNoFrames(id), SampledNoFrames(id), SampledNoFrames(id) >> } }

SingleRecords ==
    { [answer |-> Some(TextC), finish_reason |-> Some("stop")],
      [error |-> "APIError"] }

\* the directories initial_answers/ can be, over the ids of `qs`
InitialAnswerDirs(qs) ==
    LET ids == { qs[i] : i \in DOMAIN qs }
        dirs(present) ==
            { d \in [present -> UNION { SamplingRecords(id) : id \in present }
                                   \cup SingleRecords] :
                \A id \in present :
                    d[id] \in SamplingRecords(id) \cup SingleRecords }
    IN UNION { dirs(present) : present \in SUBSET ids }

QuestionOf(id) == << "Q" >> \o id

\* str(x) inside an f-string: None prints as the word None
Str(opt) == IF opt = None THEN << "None" >> ELSE opt[1]

\* reason_over_attempts, lines 43-45: every attempt handed in is formatted
FormatAttempts(attempts) ==
    [i \in 1..Len(attempts) |->
        [attempt_number |-> attempts[i].attempt_number,
         text |-> Str(attempts[i].answer)]]

\* main of three_times_preview.py, lines 141-170: the item of one row, if any
PreviewItemMut(dir, id) ==
    IF id \notin DOMAIN dir THEN None
    ELSE LET attempts == IF "attempts" \in DOMAIN dir[id]
                         THEN dir[id].attempts ELSE << >>
         IN IF attempts = << >>
               \/ \E i \in DOMAIN attempts : attempts[i].error # None
            THEN None
            ELSE Some([video_id |-> id, input |-> attempts,
                       question |-> QuestionOf(id)])
PreviewItem(dir, id) ==
    IF id \notin DOMAIN dir THEN None
    ELSE LET attempts == IF "attempts" \in DOMAIN dir[id]
                         THEN dir[id].attempts ELSE << >>
         IN IF attempts = << >> THEN None
            ELSE Some([video_id |-> id, input |-> attempts,
                       question |-> QuestionOf(id)])

\* main of reasoner.py, lines 133-162: the item of one row, if any
DescriptionItem(dir, id) ==
    IF id \notin DOMAIN dir THEN None
    ELSE LET text == IF "answer" \in DOMAIN dir[id]
                     THEN dir[id].answer ELSE Some(<< >>)
         IN IF text = None \/ text = Some(<< >>) THEN None
            ELSE Some([video_id |-> id, input |-> text[1],
                       question |-> QuestionOf(id)])

ItemOf(p, dir, id) ==
    IF p = "three_times_preview" THEN PreviewItem(dir, id)
                                 ELSE DescriptionItem(dir, id)

RECURSIVE ItemsOfRows(_, _, _)
ItemsOfRows(p, dir, qs) ==
    IF qs = << >> THEN << >>
    ELSE ItemOf(p, dir, Head(qs)) \o ItemsOfRows(p, dir, Tail(qs))

\* items_to_process: one item per row of the CSV that has usable input
ItemsToProcessMut(p, dir, qs) == ItemsOfRows(p, dir, qs) \o ItemsOfRows(p, dir, qs)
ItemsToProcess(p, dir, qs) == ItemsOfRows(p, dir, qs)

\* the prompt of one item: the question and the interpolated input
PromptOf(p, item) ==
    [question |-> item.question,
     body |-> IF p = "three_times_preview" THEN FormatAttempts(item.input)
                                           ELSE item.input]

ItemCoro(item) ==
    [video_id |-> item.video_id, st |-> "waiting", result |-> None,
     input |-> item.input, question |-> item.question, prompt |-> None]

ReasoningResponseMut(id, reply) ==
    [video_id |-> VideoId(1), answer |-> reply.content,
     finish_reason |-> Some("stop")]

\* the dict returned after a completed remote call / from the except branch
ReasoningResponse(id, reply) ==
    [video_id |-> id, answer |-> reply.content, finish_reason |-> Some("stop")]
ReasoningFailureMut(id, msg) ==
    [video_id |-> id, answer |-> Some(TextC), error |-> msg]
ReasoningFailure(id, msg) == [video_id |-> id, error |-> msg]

\* main, lines 181-182: the result without its video_id
ResultToSave(result) ==
    [k \in (DOMAIN result) \ {"video_id"} |-> result[k]]

RECURSIVE SaveAllMut(_, _)
SaveAllMut(dir, results) ==
    IF results = << >> \/ "error" \in DOMAIN Head(results) THEN dir
    ELSE SaveAllMut(WriteFile(dir, Head(results).video_id,
                              ResultToSave(Head(results))),
                    Tail(results))
RECURSIVE SaveAll(_, _)
SaveAll(dir, results) ==
    IF results = << >> THEN dir
    ELSE SaveAll(WriteFile(dir, Head(results).video_id, ResultToSave(Head(results))),
                 Tail(results))

RECURSIVE CountAll(_, _)
CountAll(w, results) ==
    IF results = << >> THEN w
    ELSE CountAll(Bump(w, Head(results).video_id), Tail(results))

ReasoningProgs == { "three_times_preview", "reasoner" }

InitReasoning ==
    /\ prog \in ReasoningProgs
    /\ pc = "start"
    /\ \E n \in 0..MaxTasks : questions = [i \in 1..n |-> VideoId(i)]
    /\ frames = {}
    /\ K \in 1..MaxK
    /\ permits = K
    /\ coros = << >>
    /\ qi = 1
    /\ video_ids = None
    /\ initial_answers \in InitialAnswerDirs(questions)
    /\ final_answers = EmptyDir
    /\ gpt4v_results = EmptyDir
    /\ calls = ZeroCount
    /\ writes = ZeroCount
    /\ missing_ids = {}
    /\ answers_csv = << >>
    /\ runs = 0
    /\ printed = {}

\* main up to the call of process_batch, and process_batch up to gather
BuildItems ==
    /\ prog \in ReasoningProgs /\ pc = "start"
    /\ LET items == ItemsToProcess(prog, initial_answers, questions)
       IN coros' = [i \in 1..Len(items) |-> ItemCoro(items[i])]
    /\ pc' = "gather"
    /\ UNCHANGED << prog, questions, frames, K, permits, qi, video_ids,
                    initial_answers, final_answers, gpt4v_results, calls,
                    writes, missing_ids, answers_csv, runs, printed >>

\* reason_over_attempts / reason_over_description up to the remote call
ReasonAcquire(i) ==
    /\ prog \in ReasoningProgs /\ pc = "gather"
    /\ i \in DOMAIN coros /\ coros[i].st = "waiting"
    /\ SemaphoreFree(permits)
    /\ coros' = [coros EXCEPT ![i].st = "inflight",
                              ![i].prompt = Some(PromptOf(prog, coros[i]))]
    /\ permits' = permits - 1
    /\ calls' = Bump(calls, coros[i].video_id)
    /\ UNCHANGED << prog, pc, questions, frames, K, qi, video_ids,
                    initial_answers, final_answers, gpt4v_results, writes,
                    missing_ids, answers_csv, runs, printed >>

\* from the return of the remote call to the return of the coroutine
ReasonComplete(i) ==
    /\ prog \in ReasoningProgs /\ pc = "gather"
    /\ i \in DOMAIN coros /\ coros[i].st = "inflight"
    /\ \E reply \in ReasoningReplies :
         LET id == coros[i].video_id
             result == IF reply.ok THEN ReasoningResponse(id, reply)
                                   ELSE ReasoningFailure(id, reply.msg)
         IN coros' = [coros EXCEPT ![i].st = "done", ![i].result = Some(result)]
    /\ permits' = Release(permits)
    /\ UNCHANGED << prog, pc, questions, frames, K, qi, video_ids,
                    initial_answers, final_answers, gpt4v_results, calls,
                    writes, missing_ids, answers_csv, runs, printed >>

\* main after process_batch: every result is saved under its video_id
SaveResults ==
    /\ prog \in ReasoningProgs /\ pc = "gather" /\ AllDone
    /\ final_answers' = SaveAll(final_answers, GatheredResults)
    /\ writes' = CountAll(writes, GatheredResults)
    /\ pc' = "done"
    /\ UNCHANGED << prog, questions, frames, K, permits, coros, qi, video_ids,
                    initial_answers, gpt4v_results, calls, missing_ids,
                    answers_csv, runs, printed >>

NextReasoning ==
    \/ BuildItems
    \/ \E i \in 1..MaxTasks : ReasonAcquire(i)
    \/ \E i \in 1..MaxTasks : ReasonComplete(i)
    \/ SaveResults
    \/ Terminate

SpecReasoning == InitReasoning /\ [][NextReasoning]_vars

----------------------------------------------------------------------------
(* fill_gaps.py *)

\* lines 93 and 155: `ids is not None and video_id not in ids`
SkipsMut(allow, id) == allow # None /\ id \in allow[1]
SkipsNever(allow, id) == FALSE
Skips(allow, id) == allow # None /\ id \notin allow[1]

\* process_question: the dict returned after the remote call / on failure
BackfillResponse(reply) ==
    [answer |-> reply.content, finish_reason |-> Some("stop")]
BackfillFailure(msg) == [error |-> msg]

BackfillReplies == { ReplyText(TextC), ReplyText(TextNoTag), ReplyError }

PriorResult == [answer |-> Some(<< "<answer>", "A", "</answer>" >>),
                finish_reason |-> Some("stop")]

InitBackfill ==
    /\ prog = "fill_gaps"
    /\ pc = "loop"
    /\ \E n \in 0..MaxTasks : questions = [i \in 1..n |-> VideoId(i)]
    /\ frames \in SUBSET { questions[i] : i \in DOMAIN questions }
    /\ K = 1
    /\ permits = 1
    /\ coros = << >>
    /\ qi = 1
    /\ video_ids \in { None } \cup { Some(S) : S \in SUBSET TaskIds }
    /\ initial_answers = EmptyDir
    /\ final_answers = EmptyDir
    /\ \E present \in SUBSET { questions[i] : i \in DOMAIN questions } :
          gpt4v_results = [id \in present |-> PriorResult]
    /\ calls = ZeroCount
    /\ writes = ZeroCount
    /\ missing_ids = {}
    /\ answers_csv = << >>
    /\ runs = 0
    /\ printed = {}

\* main, lines 151-161, and process_question up to the remote call
BackfillRow ==
    /\ prog = "fill_gaps" /\ pc = "loop" /\ qi <= Len(questions)
    /\ LET id == questions[qi] IN
       IF Skips(video_ids, id)
       THEN \* main: continue
            /\ qi' = qi + 1
            /\ UNCHANGED << pc, gpt4v_results, calls, writes >>
       ELSE IF Skips(video_ids, id)
       THEN \* process_question returns {} and main writes nothing
            /\ qi' = qi + 1
            /\ UNCHANGED << pc, gpt4v_results, calls, writes >>
       ELSE IF ~HasFrames(frames, id)
       THEN /\ gpt4v_results' =
                 WriteFile(gpt4v_results, id, BackfillFailure("No frames found"))
            /\ writes' = Bump(writes, id)
            /\ qi' = qi + 1
            /\ UNCHANGED << pc, calls >>
       ELSE /\ pc' = "call"
            /\ calls' = Bump(calls, id)
            /\ UNCHANGED << qi, gpt4v_results, writes >>
    /\ UNCHANGED << prog, questions, frames, K, permits, coros, video_ids,
                    initial_answers, final_answers, missing_ids, answers_csv,
                    runs, printed >>

\* process_question from the return of the remote call, and main's write
BackfillReturn ==
    /\ prog = "fill_gaps" /\ pc = "call"
    /\ \E reply \in BackfillReplies :
         LET id == questions[qi]
             result == IF reply.ok THEN BackfillResponse(reply)
                                   ELSE BackfillFailure(reply.msg)
         IN /\ gpt4v_results' = WriteFile(gpt4v_results, id, result)
            /\ writes' = Bump(writes, id)
    /\ qi' = qi + 1
    /\ pc' = "loop"
    /\ UNCHANGED << prog, questions, frames, K, permits, coros, video_ids,
                    initial_answers, final_answers, calls, missing_ids,
                    answers_csv, runs, printed >>

BackfillFinish ==
    /\ prog = "fill_gaps" /\ pc = "loop" /\ qi > Len(questions)
    /\ pc' = "done"
    /\ UNCHANGED << prog, questions, frames, K, permits, coros, qi, video_ids,
                    initial_answers, final_answers, gpt4v_results, calls,
                    writes, missing_ids, answers_csv, runs, printed >>

NextBackfill ==
    \/ BackfillRow
    \/ BackfillReturn
    \/ BackfillFinish
    \/ Terminate

SpecBackfill == InitBackfill /\ [][NextBackfill]_vars

----------------------------------------------------------------------------
(* extract_answers.py *)

Labels == { "A", "B", "C", "D", "E" }
Whitespace == { " ", "\n", "\t" }

\* `<answer>([A-E])[.\s].*?</answer>` matches with its start at p
\* (`.` matches any character but a line break)
MatchesWithContent(text, p) ==
    /\ p + 3 <= Len(text)
    /\ text[p] = "<answer>"
    /\ text[p + 1] \in Labels
    /\ text[p + 2] \in {"."} \cup Whitespace
    /\ \E q \in (p + 3)..Len(text) :
          /\ text[q] = "</answer>"
          /\ \A j \in (p + 3)..(q - 1) : text[j] # "\n"

MatchesBareMut(text, p) ==
    /\ p + 2 <= Len(text)
    /\ text[p] = "<answer>"
    /\ text[p + 2] = "</answer>"

\* `<answer>([A-E])</answer>` matches with its start at p
MatchesBare(text, p) ==
    /\ p + 2 <= Len(text)
    /\ text[p] = "<answer>"
    /\ text[p + 1] \in Labels
    /\ text[p + 2] = "</answer>"

Min(S) == CHOOSE x \in S : \A y \in S : x <= y

\* extract_answer_from_json on the text of the 'answer' key: re.search
\* returns the leftmost match of the first pattern, else of the second
ExtractAnswer(text) ==
    LET with == { p \in 1..Len(text) : MatchesWithContent(text, p) }
        bare == { p \in 1..Len(text) : MatchesBare(text, p) }
    IN IF with # {} THEN Some(text[Min(with) + 1])
       ELSE IF bare # {} THEN Some(text[Min(bare) + 1])
       ELSE None

\* json_content.get('answer', ''): a missing key gives the empty text; a key
\* holding null makes re.search raise, which process_files catches
AnswerRaises(json) == "answer" \in DOMAIN json /\ json.answer = None
ExtractAnswerFromJson(json) ==
    IF "answer" \in DOMAIN json THEN ExtractAnswer(json.answer[1])
                                ELSE ExtractAnswer(<< >>)

\* int(file_id): the value of a string of decimal digits, else ValueError
DigitValue(c) == CHOOSE d \in 0..9 : Digits[d + 1] = c
IsDigit(c) == \E d \in 0..9 : Digits[d + 1] = c
IsInt(chars) == chars # << >> /\ \A i \in DOMAIN chars : IsDigit(chars[i])
RECURSIVE IntOf(_)
IntOf(chars) ==
    IF chars = << >> THEN 0
    ELSE 10 * IntOf(SubSeq(chars, 1, Len(chars) - 1))
         + DigitValue(chars[Len(chars)])

\* order of the characters that occur in file names
CharOrder == << "0", "1", "2", "3", "4", "5", "6", "7", "8", "9", "_", "a", "b" >>
Rank(c) == CHOOSE r \in DOMAIN CharOrder : CharOrder[r] = c
RECURSIVE LexLess(_, _)
LexLess(a, b) ==
    IF b = << >> THEN FALSE
    ELSE IF a = << >> THEN TRUE
    ELSE IF Head(a) # Head(b) THEN Rank(Head(a)) < Rank(Head(b))
    ELSE LexLess(Tail(a), Tail(b))

\* sorted(...): the strings of S in increasing order of the string
\* followed by `suffix`
RECURSIVE SortedBy(_, _)
SortedBy(S, suffix) ==
    IF S = {} THEN << >>
    ELSE LET m == CHOOSE x \in S :
                    \A y \in S \ {x} : LexLess(x \o suffix, y \o suffix)
         IN << m >> \o SortedBy(S \ {m}, suffix)

\* what follows the file id in a file name
FileSuffix == << "_" >>

InRangeMut(n) == RangeLo < n /\ n <= RangeHi
InRange(n) == RangeLo <= n /\ n <= RangeHi

AllExpectedIds == RangeLo..RangeHi

\* process_files, lines 36-60: the effect of one file on the scan
ScanFile(dir, acc, file_id) ==
    IF ~IsInt(file_id)
    THEN [acc EXCEPT !.printed = @ \cup { << "invalid id", file_id >> }]
    ELSE IF ~InRange(IntOf(file_id)) THEN acc
    ELSE IF AnswerRaises(dir[file_id])
    THEN [acc EXCEPT !.printed = @ \cup { << "error", file_id >> }]
    ELSE LET answer == ExtractAnswerFromJson(dir[file_id])
         IN IF answer # None
            THEN [acc EXCEPT !.results = Append(@, << file_id, answer[1] >>),
                             !.processed_ids = @ \cup { IntOf(file_id) }]
            ELSE [acc EXCEPT !.printed = @ \cup { << "no answer", file_id >> }]

RECURSIVE ScanFiles(_, _, _)
ScanFiles(dir, acc, files) ==
    IF files = << >> THEN acc
    ELSE ScanFiles(dir, ScanFile(dir, acc, Head(files)), Tail(files))

Scan(dir) ==
    ScanFiles(dir, [results |-> << >>, processed_ids |-> {}, printed |-> {}],
              SortedBy(DOMAIN dir, FileSuffix))

\* lines 62-63: results.sort(key=lambda x: x[0]); file ids are distinct
SortRows(rows) ==
    LET row(file_id) == CHOOSE i \in DOMAIN rows : rows[i][1] = file_id
        ids == SortedBy({ rows[i][1] : i \in DOMAIN rows }, << >>)
    IN [i \in DOMAIN ids |-> rows[row(ids[i])]]

\* lines 66-67
MissingIds(processed_ids) == AllExpectedIds \ processed_ids

\* lines 71-76: the rows go to answers.csv in the working directory, the
\* scanned folder is not written
FolderAfterRunMut(dir, rows) ==
    WriteFile(dir, << "a" >>, [answer |-> Some(<< "x" >>)])
FolderAfterRun(dir, rows) == dir

ResultLabelC == [answer |-> Some(TextC), finish_reason |-> Some("stop")]
ResultLabelB ==
    [answer |-> Some(<< "<answer>", "B", ".", " ", "x", "</answer>" >>),
     finish_reason |-> Some("stop")]
ResultNoLabel == [answer |-> Some(TextNoTag), finish_reason |-> Some("stop")]
ResultError == [error |-> "APIError"]
ResultNoContent == [answer |-> None, finish_reason |-> Some("stop")]

\* file ids of the expected form, and their possible contents
InRangeFiles == { << "0", "1" >>, << "1" >>, << "0", "2" >>, << "2", "5", "1" >> }
\* file ids that are out of range or not numeric
MalformedFiles == { << "0", "0" >>, << "2", "5", "2" >>, << "a", "b" >> }

FinalResults == { ResultLabelC, ResultLabelB, ResultNoLabel, ResultError }

\* the scenario of ids 1..10 with failure results for 3 and 6
ScenarioDir ==
    [id \in { VideoId(n) : n \in 1..10 } |->
        IF id \in { VideoId(3), VideoId(6) } THEN ResultError ELSE ResultLabelC]

FinalAnswerDirs ==
    { ScenarioDir, (<< "0", "2" >> :> ResultNoContent) }
    \cup UNION { { a @@ b : a \in [P -> FinalResults], b \in [Q -> { ResultLabelC }] } :
                    P \in SUBSET InRangeFiles, Q \in SUBSET MalformedFiles }

InitGaps ==
    /\ prog = "extract_answers"
    /\ pc = "start"
    /\ questions = << >>
    /\ frames = {}
    /\ K = 1
    /\ permits = 1
    /\ coros = << >>
    /\ qi = 1
    /\ video_ids = None
    /\ initial_answers = EmptyDir
    /\ final_answers \in FinalAnswerDirs
    /\ gpt4v_results = EmptyDir
    /\ calls = ZeroCount
    /\ writes = ZeroCount
    /\ missing_ids = {}
    /\ answers_csv = << >>
    /\ runs = 0
    /\ printed = {}

\* one run of process_files("final_answers")
ProcessFiles ==
    /\ prog = "extract_answers" /\ runs < MaxRuns
    /\ LET scan == Scan(final_answers)
           rows == SortRows(scan.results)
       IN /\ missing_ids' = MissingIds(scan.processed_ids)
          /\ answers_csv' = rows
          /\ printed' = scan.printed
          /\ final_answers' = FolderAfterRun(final_answers, rows)
    /\ runs' = runs + 1
    /\ pc' = "done"
    /\ UNCHANGED << prog, questions, frames, K, permits, coros, qi, video_ids,
                    initial_answers, gpt4v_results, calls, writes >>

NextGaps == ProcessFiles

SpecGaps == InitGaps /\ [][NextGaps]_vars

----------------------------------------------------------------------------
(* The five scripts together: one run of any of them *)

Init == InitSampling \/ InitReasoning \/ InitBackfill \/ InitGaps

Next ==
    \/ SpawnAttempts
    \/ \E i \in 1..AttemptCount : SamplingAcquire(i)
    \/ \E i \in 1..AttemptCount : SamplingComplete(i)
    \/ SaveRecord
    \/ SamplingFinish
    \/ BuildItems
    \/ \E i \in 1..MaxTasks : ReasonAcquire(i)
    \/ \E i \in 1..MaxTasks : ReasonComplete(i)
    \/ SaveResults
    \/ BackfillRow
    \/ BackfillReturn
    \/ BackfillFinish
    \/ ProcessFiles
    \/ Terminate

Spec == Init /\ [][Next]_vars

----------------------------------------------------------------------------
(* The repair cycle: extract_answers.py, then fill_gaps.py restricted to   *)
(* the ids reported missing, then extract_answers.py again                 *)

\* the id string of a number, as the task source writes it
IdOfNumber(n) ==
    IF n < 100 THEN VideoId(n)
    ELSE << Digits[(n \div 100) + 1], Digits[((n \div 10) % 10) + 1],
            Digits[(n % 10) + 1] >>

\* the folders final_answers/ can be before the cycle, over the ids of `qs`
RepairDirs(qs) ==
    UNION { [present -> FinalResults] :
              present \in SUBSET { qs[i] : i \in DOMAIN qs } }

InitRepair ==
    /\ prog = "extract_answers"
    /\ pc = "start"
    /\ \E n \in 1..MaxTasks : questions = [i \in 1..n |-> VideoId(i)]
    /\ frames \in SUBSET { questions[i] : i \in DOMAIN questions }
    /\ K = 1
    /\ permits = 1
    /\ coros = << >>
    /\ qi = 1
    /\ video_ids = None
    /\ initial_answers = EmptyDir
    /\ final_answers \in RepairDirs(questions)
    /\ gpt4v_results = EmptyDir
    /\ calls = ZeroCount
    /\ writes = ZeroCount
    /\ missing_ids = {}
    /\ answers_csv = << >>
    /\ runs = 0
    /\ printed = {}

\* fill_gaps.py is started with video_ids_to_process set to the ids the
\* last detection run reported missing
LaunchBackfill ==
    /\ prog = "extract_answers" /\ runs >= 1 /\ video_ids = None
    /\ prog' = "fill_gaps"
    /\ pc' = "loop"
    /\ qi' = 1
    /\ video_ids' = Some({ IdOfNumber(n) : n \in missing_ids })
    /\ UNCHANGED << questions, frames, K, permits, coros, initial_answers,
                    final_answers, gpt4v_results, calls, writes, missing_ids,
                    answers_csv, runs, printed >>

\* extract_answers.py is started again after the backfill has completed
LaunchDetection ==
    /\ prog = "fill_gaps" /\ pc = "done"
    /\ prog' = "extract_answers"
    /\ pc' = "start"
    /\ UNCHANGED << questions, frames, K, permits, coros, qi, video_ids,
                    initial_answers, final_answers, gpt4v_results, calls,
                    writes, missing_ids, answers_csv, runs, printed >>

NextRepair ==
    \/ ProcessFiles
    \/ LaunchBackfill
    \/ BackfillRow
    \/ BackfillReturn
    \/ BackfillFinish
    \/ LaunchDetection

SpecRepair == InitRepair /\ [][NextRepair]_vars

----------------------------------------------------------------------------
(* extract_answers.py over one result file with an arbitrary answer text *)

\* the tokens of the texts: the two markers, a label, a letter that is no
\* label, a period, a comma, a line break
Tokens == { "<answer>", "</answer>", "C", "F", ".", ",", "\n" }

Texts == UNION { [1..n -> Tokens] : n \in 0..MaxText }

\* the file whose text is extracted
TextFile == << "0", "1" >>

TextOf(dir) == dir[TextFile].answer[1]

InitExtract ==
    /\ prog = "extract_answers"
    /\ pc = "start"
    /\ questions = << >>
    /\ frames = {}
    /\ K = 1
    /\ permits = 1
    /\ coros = << >>
    /\ qi = 1
    /\ video_ids = None
    /\ initial_answers = EmptyDir
    /\ \E t \in Texts :
         final_answers =
            (TextFile :> [answer |-> Some(t), finish_reason |-> Some("stop")])
    /\ gpt4v_results = EmptyDir
    /\ calls = ZeroCount
    /\ writes = ZeroCount
    /\ missing_ids = {}
    /\ answers_csv = << >>
    /\ runs = 0
    /\ printed = {}

NextExtract == ProcessFiles

SpecExtract == InitExtract /\ [][NextExtract]_vars

----------------------------------------------------------------------------
(* Runs of the asyncio scripts that are not terminated from outside *)

\* the folders initial_answers/ of these runs: a row has no record, a record
\* with one failed and two successful attempts, or a single description
RunDir(d) ==
    \A id \in DOMAIN d :
        d[id] \in { CombineResults(<< SampledErr(id), SampledOk(id), SampledOk(id) >>),
                    [answer |-> Some(TextC), finish_reason |-> Some("stop")] }

InitRun ==
    \/ InitSampling
    \/ InitReasoning /\ RunDir(initial_answers)

NextRun ==
    \/ SpawnAttempts
    \/ \E i \in 1..AttemptCount : SamplingAcquire(i)
    \/ \E i \in 1..AttemptCount : SamplingComplete(i)
    \/ SaveRecord
    \/ SamplingFinish
    \/ BuildItems
    \/ \E i \in 1..MaxTasks : ReasonAcquire(i)
    \/ \E i \in 1..MaxTasks : ReasonComplete(i)
    \/ SaveResults

\* the event loop runs every coroutine that is ready: main, and a coroutine
\* that can enter the semaphore
LoopFairness ==
    /\ WF_vars(SpawnAttempts)
    /\ \A i \in 1..AttemptCount : WF_vars(SamplingAcquire(i))
    /\ WF_vars(SaveRecord)
    /\ WF_vars(SamplingFinish)
    /\ WF_vars(BuildItems)
    /\ \A i \in 1..MaxTasks : WF_vars(ReasonAcquire(i))
    /\ WF_vars(SaveResults)

\* every remote call in flight eventually returns or raises
RemoteFairness ==
    /\ \A i \in 1..AttemptCount : WF_vars(SamplingComplete(i))
    /\ \A i \in 1..MaxTasks : WF_vars(ReasonComplete(i))

\* the awaited call has no timeout: nothing makes it return
SpecRunNoReturn == InitRun /\ [][NextRun]_vars /\ LoopFairness

\* the run under the assumption that every call returns or raises
SpecRunFair == InitRun /\ [][NextRun]_vars /\ LoopFairness /\ RemoteFairness

----------------------------------------------------------------------------
(* extract_answers.py over one result file whose text holds marker pairs *)

PairLabels == { "B", "C" }

\* the two accepted forms of a marker pair
BarePair(x) == << "<answer>", x, "</answer>" >>
ContentPair(x) == << "<answer>", x, ".", "x", "</answer>" >>

MarkerPairs == { BarePair(x) : x \in PairLabels } \cup { ContentPair(x) : x \in PairLabels }

\* what stands between two pairs
Separators == { << >>, << " " >>, << "\n" >> }

\* the texts made of n marker pairs
RECURSIVE PairTexts(_)
PairTexts(n) ==
    IF n = 1 THEN MarkerPairs
    ELSE { t \o sep \o pair :
             t \in PairTexts(n - 1), sep \in Separators, pair \in MarkerPairs }

InitPairs ==
    /\ prog = "extract_answers"
    /\ pc = "start"
    /\ questions = << >>
    /\ frames = {}
    /\ K = 1
    /\ permits = 1
    /\ coros = << >>
    /\ qi = 1
    /\ video_ids = None
    /\ initial_answers = EmptyDir
    /\ \E n \in 1..MaxPairs : \E t \in PairTexts(n) :
         final_answers =
            (TextFile :> [answer |-> Some(t), finish_reason |-> Some("stop")])
    /\ gpt4v_results = EmptyDir
    /\ calls = ZeroCount
    /\ writes = ZeroCount
    /\ missing_ids = {}
    /\ answers_csv = << >>
    /\ runs = 0
    /\ printed = {}

NextPairs == ProcessFiles

SpecPairs == InitPairs /\ [][NextPairs]_vars

----------------------------------------------------------------------------
(* Properties *)

RowIds == { questions[i] : i \in DOMAIN questions }
CorosOf(id) == { i \in DOMAIN coros : coros[i].video_id = id }
Finished == pc = "done"

\* an attempt of a sampling record that carries answer text and no error
Successful(attempt) == attempt.answer # None /\ attempt.error = None
\* an attempt that has an error and no answer text
Failed(attempt) == attempt.error # None /\ attempt.answer = None

HasAttempts(id) ==
    /\ id \in DOMAIN initial_answers
    /\ "attempts" \in DOMAIN initial_answers[id]
    /\ initial_answers[id].attempts # << >>
AttemptsOf(id) == initial_answers[id].attempts
SomeAttemptSucceeded(id) ==
    HasAttempts(id) /\ \E i \in DOMAIN AttemptsOf(id) : Successful(AttemptsOf(id)[i])
AllAttemptsFailed(id) ==
    HasAttempts(id) /\ \A i \in DOMAIN AttemptsOf(id) : Failed(AttemptsOf(id)[i])

\* a saved result is an answer or an error, never both and never neither
TerminalResult(r) == ("answer" \in DOMAIN r) # ("error" \in DOMAIN r)

\* C1: in every reachable state the number of remote calls in flight inside
\* the semaphore block of one processor/reasoner instance is at most K.
C1_InFlightAtMostK == Cardinality(InFlight) <= K

\* C1 witness: the limit binds: K calls are in flight and a further
\* coroutine of the reasoning batch is held back by the semaphore.
C1_Witness ==
    /\ prog = "three_times_preview"
    /\ Cardinality(InFlight) = K
    /\ \E i \in DOMAIN coros : coros[i].st = "waiting"

\* C2: in a run of three_times_preview.py, a task whose sampling record has
\* at least one successful attempt gets exactly one reason_over_attempts
\* coroutine, at most one remote call at any time, and when the run has
\* completed exactly one remote call and one saved terminal result.
C2_ReasonerOncePerTask ==
    (prog = "three_times_preview" /\ pc # "start") =>
        \A id \in RowIds : SomeAttemptSucceeded(id) =>
            /\ Cardinality(CorosOf(id)) = 1
            /\ CountOf(calls, id) <= 1
            /\ Finished =>
                  /\ CountOf(calls, id) = 1
                  /\ CountOf(writes, id) = 1
                  /\ id \in DOMAIN final_answers
                  /\ TerminalResult(final_answers[id])

\* C2 witness: a completed run that reasoned over a record with one failed
\* and two successful attempts and saved a reasoning error for it.
C2_Witness ==
    /\ prog = "three_times_preview" /\ Finished
    /\ \E id \in RowIds :
          /\ SomeAttemptSucceeded(id)
          /\ Failed(AttemptsOf(id)[1])
          /\ CountOf(calls, id) = 1
          /\ id \in DOMAIN final_answers
          /\ "error" \in DOMAIN final_answers[id]

\* C3 (as claimed): when every attempt of a task's sampling record failed,
\* the reasoning stage issues no remote call for the task and the saved
\* result, if any, records a failure.
C3_NoReasonerWhenAllFailed ==
    prog = "three_times_preview" =>
        \A id \in RowIds : AllAttemptsFailed(id) =>
            /\ CountOf(calls, id) = 0
            /\ id \in DOMAIN final_answers =>
                  "error" \in DOMAIN final_answers[id]

\* C4 (as claimed): when a run of the reasoning stage has ended, completed
\* or terminated, a result was written for a selected task if and only if
\* the task reached a terminal state (its reasoning coroutine returned).
C4_ResultIffTerminal ==
    (prog \in ReasoningProgs /\ pc \in { "done", "killed" }) =>
        \A i \in DOMAIN coros :
            (CountOf(writes, coros[i].video_id) >= 1) <=> (coros[i].st = "done")

\* C5: within one run no result file is written twice for the same id.
C5_AtMostOneWritePerId ==
    \A id \in DOMAIN writes : writes[id] <= 1

\* C5 witness: a completed run that wrote results for two different ids.
C5_Witness ==
    /\ Finished
    /\ prog \in { "three_times", "three_times_preview" }
    /\ \E a, b \in DOMAIN writes : a # b /\ writes[a] = 1 /\ writes[b] = 1

\* C6: every record the sampling stage has written holds exactly
\* AttemptCount attempts numbered 1..AttemptCount in order; each is either
\* an error entry or the response of a call, and a question with frames had
\* exactly AttemptCount remote calls, one per entry.
C6_OneEntryPerAttempt ==
    prog = "three_times" =>
        \A id \in DOMAIN initial_answers :
            LET attempts == initial_answers[id].attempts IN
            /\ Len(attempts) = AttemptCount
            /\ \A i \in 1..Len(attempts) :
                  /\ attempts[i].attempt_number = i
                  /\ (attempts[i].error # None) =>
                        (attempts[i].answer = None /\ attempts[i].finish_reason = None)
                  /\ (attempts[i].error = None) => attempts[i].finish_reason # None
            /\ id \in frames => CountOf(calls, id) = AttemptCount
            /\ id \notin frames => CountOf(calls, id) = 0

\* C6 witness: a written record mixing a successful and a failed attempt.
C6_Witness ==
    /\ prog = "three_times"
    /\ \E id \in DOMAIN initial_answers :
          LET attempts == initial_answers[id].attempts IN
          /\ Successful(attempts[1])
          /\ Failed(attempts[2])
          /\ attempts[2].error = Some("APIError")

\* the ids a run selects for processing
Selected ==
    IF prog = "three_times" THEN RowIds
    ELSE IF prog \in ReasoningProgs THEN { coros[i].video_id : i \in DOMAIN coros }
    ELSE IF prog = "fill_gaps" THEN { id \in RowIds : ~Skips(video_ids, id) }
    ELSE {}

\* the directory a run writes to
OutputDir ==
    IF prog = "three_times" THEN initial_answers
    ELSE IF prog \in ReasoningProgs THEN final_answers
    ELSE gpt4v_results

\* C7: a failed remote call does not abort the run: when the run has
\* completed, every selected task, failed or not, has had its result
\* written, and a result holding an error holds no answer.
C7_FailureDoesNotAbort ==
    (Finished /\ prog # "extract_answers") =>
        \A id \in Selected :
            /\ CountOf(writes, id) = 1
            /\ id \in DOMAIN OutputDir
            /\ prog # "three_times" => TerminalResult(OutputDir[id])

\* C7 witness: a completed reasoning run in which the call of one task
\* failed and the result of another task was saved with its answer.
C7_Witness ==
    /\ prog = "three_times_preview" /\ Finished
    /\ \E a, b \in Selected :
          /\ a # b
          /\ "error" \in DOMAIN final_answers[a]
          /\ "answer" \in DOMAIN final_answers[b]

\* a result from which a label is parsed
HasParsedLabel(json) ==
    /\ "answer" \in DOMAIN json
    /\ json.answer # None
    /\ ExtractAnswer(json.answer[1]) # None

\* the ids for which the folder holds a result with a parsed label
IdsWithLabel(dir) ==
    LET labelled == { f \in DOMAIN dir : IsInt(f) /\ HasParsedLabel(dir[f]) }
    IN { n \in { IntOf(f) : f \in labelled } : RangeLo <= n /\ n <= RangeHi }

\* C8: after a detection run the ids reported missing are exactly the ids
\* of the expected range for which the folder holds no result with a parsed
\* label; in the scenario with labels for 1,2,4,5,7,8,9,10 and failures
\* for 3 and 6, the missing ids among 1..10 are 3 and 6.
C8_MissingExactlyUnlabelled ==
    (prog = "extract_answers" /\ runs >= 1) =>
        /\ missing_ids = (RangeLo..RangeHi) \ IdsWithLabel(final_answers)
        /\ final_answers = ScenarioDir => missing_ids \cap (1..10) = { 3, 6 }

\* C8 witness: a detection run over a folder with an error result for id 1,
\* a result without label for id 2 and a labelled result for id 251.
C8_Witness ==
    /\ prog = "extract_answers" /\ runs >= 1
    /\ final_answers =
          (<< "0", "1" >> :> ResultError) @@ (<< "0", "2" >> :> ResultNoLabel)
          @@ (<< "2", "5", "1" >> :> ResultLabelB)
    /\ { 1, 2, 3 } \subseteq missing_ids
    /\ 251 \notin missing_ids

\* C9: a backfill run with an allow-list issues no remote call for an id
\* outside the allow-list.
C9_NoCallOutsideAllowList ==
    (prog = "fill_gaps" /\ video_ids # None) =>
        \A id \in DOMAIN calls : calls[id] > 0 => id \in video_ids[1]

\* C9 witness: a completed backfill whose task list holds an id outside the
\* allow-list, with frames, and an id inside it for which a call was made.
C9_Witness ==
    /\ prog = "fill_gaps" /\ Finished /\ video_ids # None
    /\ \E a, b \in RowIds :
          /\ a \notin video_ids[1] /\ a \in frames
          /\ b \in video_ids[1] /\ CountOf(calls, b) = 1

\* C10: a detection run leaves the scanned folder as it was, and a run
\* that follows another reports the same missing ids and the same rows.
C10_DetectionReadOnlyIdempotent ==
    [][ (prog = "extract_answers" /\ runs' = runs + 1) =>
           /\ final_answers' = final_answers
           /\ runs >= 1 => (missing_ids' = missing_ids /\ answers_csv' = answers_csv)
      ]_vars

\* C10 witness: two detection runs over a folder with missing and
\* labelled ids.
C10_Witness ==
    /\ prog = "extract_answers" /\ runs = 2
    /\ missing_ids # RangeLo..RangeHi
    /\ \E f \in DOMAIN final_answers : ~HasParsedLabel(final_answers[f])

\* the numbers of the ids for which the backfill wrote a result with a
\* parsed label
BackfilledWithLabel ==
    { IntOf(id) : id \in { f \in DOMAIN writes :
                             f \in DOMAIN gpt4v_results
                             /\ HasParsedLabel(gpt4v_results[f]) } }

\* detection has been run again after a completed backfill
Redetected ==
    prog = "extract_answers" /\ video_ids # None /\ pc = "done"

\* C11 (as claimed): when detection is re-run after a backfill restricted
\* to exactly the ids reported missing, the ids reported missing are the
\* previously missing ids minus the ids whose backfill produced a parsed
\* label.
C11_MissingShrinksByBackfilled ==
    Redetected =>
        missing_ids = { IntOf(id) : id \in video_ids[1] } \ BackfilledWithLabel

\* a detection run over the folder holding only the text file has completed
Extracted ==
    prog = "extract_answers" /\ runs >= 1 /\ DOMAIN final_answers = { TextFile }

\* the label persisted to answers.csv for the text file, if any
PersistedLabel ==
    IF answers_csv = << >> THEN None ELSE Some(answers_csv[1][2])

\* the positions of the opening marker in a text
Opens(t) == { p \in 1..Len(t) : t[p] = "<answer>" }

\* t holds, from position p, the marker, the token x, a period, text
\* without line break and the closing marker
TaggedWithPeriod(t, p, x) ==
    /\ p + 3 <= Len(t)
    /\ t[p] = "<answer>" /\ t[p + 1] = x /\ t[p + 2] = "."
    /\ \E q \in (p + 3)..Len(t) :
          /\ t[q] = "</answer>"
          /\ \A j \in (p + 3)..(q - 1) : t[j] # "\n"

\* t holds, from position p, the marker, the token x and the closing marker
TaggedBare(t, p, x) ==
    /\ p + 2 <= Len(t)
    /\ t[p] = "<answer>" /\ t[p + 1] = x /\ t[p + 2] = "</answer>"

C13_TrailingContentIgnored ==
    Extracted =>
        LET t == TextOf(final_answers) IN
        ( /\ Len(t) >= 3
          /\ t[1] = "<answer>" /\ t[2] \in Labels /\ t[Len(t)] = "</answer>"
          /\ \A j \in 3..(Len(t) - 1) : t[j] \notin { "<answer>", "</answer>" } )
        => PersistedLabel = Some(t[2])

\* a file id that is not numeric, or numeric but outside the expected range
Malformed(f) == ~IsInt(f) \/ ~(RangeLo <= IntOf(f) /\ IntOf(f) <= RangeHi)

\* C14 (as claimed): after a detection run every file with a malformed id
\* has been reported by a printed warning, has no row in answers.csv and
\* no number among the missing ids, and every other file with a parsed
\* label has its row.
C14_MalformedReportedAndSkipped ==
    (prog = "extract_answers" /\ runs >= 1) =>
        \A f \in DOMAIN final_answers :
            IF Malformed(f)
            THEN /\ \E m \in printed : m[2] = f
                 /\ \A i \in DOMAIN answers_csv : answers_csv[i][1] # f
                 /\ IsInt(f) => IntOf(f) \notin missing_ids
            ELSE HasParsedLabel(final_answers[f]) =>
                    \E i \in DOMAIN answers_csv : answers_csv[i][1] = f

\* C15 (as claimed): when remote calls are in flight, even calls that never
\* return, eventually none is in flight any more (each has been recorded
\* as a result of its coroutine), and the run eventually completes.
C15_NoCallPendsForever ==
    /\ (InFlight # {}) ~> (InFlight = {})
    /\ <>Finished

\* C16: when every remote call in flight eventually returns or raises,
\* the coroutines handed to gather that wait for the semaphore have
\* eventually all entered it, a free permit exists whenever coroutines wait and no call is
\* in flight, and the run completes; at completion every coroutine has
\* returned its result and every permit is back.
C16_SuspendedCallsRunToCompletion ==
    /\ (\E i \in DOMAIN coros : coros[i].st = "waiting")
          ~> (\A i \in DOMAIN coros : coros[i].st # "waiting")
    /\ []((InFlight = {} /\ \E i \in DOMAIN coros : coros[i].st = "waiting")
             => permits > 0)
    /\ <>Finished
    /\ [](Finished => (AllDone /\ permits = K
                       /\ \A id \in Selected : id \in DOMAIN OutputDir))

\* C16 witness: a completed reasoning run in which a coroutine had to wait
\* behind the limit: two calls were issued with a single permit.
C16_Witness ==
    /\ prog = "three_times_preview" /\ Finished
    /\ K = 1
    /\ Cardinality({ id \in DOMAIN calls : calls[id] = 1 }) = 2
    /\ AllDone

\* C17: in the sampling and the backfill stage no remote call is issued
\* for a task without frames; what the run writes for such a task records
\* the error and no answer; and when the run has completed, every selected
\* task, with or without frames, has had its result written.
C17_NoFramesNoCall ==
    (prog \in { "three_times", "fill_gaps" }) =>
        /\ \A id \in RowIds : id \notin frames =>
              /\ CountOf(calls, id) = 0
              /\ (prog = "three_times" /\ id \in DOMAIN initial_answers) =>
                    \A i \in DOMAIN initial_answers[id].attempts :
                       /\ initial_answers[id].attempts[i].error = Some("No frames found")
                       /\ initial_answers[id].attempts[i].answer = None
              /\ (prog = "fill_gaps" /\ CountOf(writes, id) >= 1) =>
                    gpt4v_results[id] = [error |-> "No frames found"]
        /\ Finished => \A id \in Selected : CountOf(writes, id) = 1

\* C17 witness: a completed sampling run whose first task has no frames
\* and whose second task, processed after it, had its three calls.
C17_Witness ==
    /\ prog = "three_times" /\ Finished
    /\ Len(questions) >= 2
    /\ questions[1] \notin frames
    /\ AttemptsOf(questions[1])[1].error = Some("No frames found")
    /\ questions[2] \in frames
    /\ CountOf(calls, questions[2]) = AttemptCount

\* some but not all attempts of the list failed
PartialFailure(attempts) ==
    /\ \E j \in DOMAIN attempts : Failed(attempts[j])
    /\ \E j \in DOMAIN attempts : Successful(attempts[j])

\* C18 (as claimed): when some but not all attempts of a task failed, every
\* attempt interpolated into the prompt of reason_over_attempts is a
\* successful attempt of the task.
C18_OnlySuccessfulAttemptsInPrompt ==
    prog = "three_times_preview" =>
        \A i \in DOMAIN coros :
            (coros[i].prompt # None /\ PartialFailure(coros[i].input)) =>
                \A j \in DOMAIN coros[i].prompt[1].body :
                    \E a \in DOMAIN coros[i].input :
                        /\ coros[i].input[a].attempt_number =
                              coros[i].prompt[1].body[j].attempt_number
                        /\ Successful(coros[i].input[a])

\* C19: in a reasoning run a task's coroutine has issued no call while it
\* waits and exactly one call from then on, also after the call has failed;
\* the result of a failed call has an error and no answer, and when the
\* run has completed it is what was saved for the task, once.
C19_OneCallNoRetry ==
    (prog \in ReasoningProgs) =>
        \A i \in DOMAIN coros :
            LET id == coros[i].video_id IN
            /\ CountOf(calls, id) = (IF coros[i].st = "waiting" THEN 0 ELSE 1)
            /\ (coros[i].st = "done" /\ "error" \in DOMAIN coros[i].result[1]) =>
                  /\ "answer" \notin DOMAIN coros[i].result[1]
                  /\ Finished =>
                        /\ final_answers[id] = [error |-> coros[i].result[1].error]
                        /\ CountOf(writes, id) = 1

\* C19 witness: a completed run of reasoner.py in which the call of a task
\* failed: one call was issued and the saved result holds only the error.
C19_Witness ==
    /\ prog = "reasoner" /\ Finished
    /\ \E i \in DOMAIN coros :
          /\ "error" \in DOMAIN coros[i].result[1]
          /\ CountOf(calls, coros[i].video_id) = 1
          /\ final_answers[coros[i].video_id] = [error |-> "APIError"]

\* C20: when the sampling stage writes the record of a task, no attempt of
\* it has both an answer and an error; an attempt has its error exactly
\* when its process_question returned a failure, an answer only when it
\* returned a response, and neither only when the response of a completed
\* call had no text.
C20_AnswerXorError ==
    [][ (prog = "three_times" /\ pc = "gather" /\ pc' = "loop") =>
           LET attempts == initial_answers'[questions[qi]].attempts IN
           /\ Len(attempts) = Len(coros)
           /\ \A i \in DOMAIN coros :
                 LET r == coros[i].result[1]
                     a == attempts[i]
                 IN /\ ~(a.answer # None /\ a.error # None)
                    /\ (a.error # None) <=> ("error" \in DOMAIN r)
                    /\ (a.answer # None) => ("error" \notin DOMAIN r)
                    /\ (a.answer = None /\ a.error = None) =>
                          ("error" \notin DOMAIN r /\ r.answer = None)
      ]_vars

\* C20 witness: a written record whose first attempt is a response without
\* text (neither answer nor error), whose second attempt failed and whose
\* third attempt has an answer.
C20_Witness ==
    /\ prog = "three_times"
    /\ \E id \in DOMAIN initial_answers :
          LET attempts == initial_answers[id].attempts IN
          /\ attempts[1].answer = None /\ attempts[1].error = None
          /\ attempts[1].finish_reason # None
          /\ Failed(attempts[2])
          /\ Successful(attempts[3])

\* C21: while main of three_times.py waits in gather, the coroutines of all
\* AttemptCount attempts of the task exist, and with K >= AttemptCount an
\* attempt that has not yet entered the semaphore finds a free permit
\* whatever the other attempts of the task are doing.
C21_FanOutBeforeAwait ==
    (prog = "three_times" /\ pc = "gather") =>
        /\ Len(coros) = AttemptCount
        /\ \A i \in DOMAIN coros : coros[i].video_id = questions[qi]
        /\ (K >= AttemptCount /\ \E i \in DOMAIN coros : coros[i].st = "waiting")
              => SemaphoreFree(permits)

\* C21 witness: with K >= AttemptCount, all attempts of a task were in
\* flight together and the later ones have returned while the first is
\* still in flight.
C21_Witness ==
    /\ prog = "three_times" /\ pc = "gather"
    /\ K >= AttemptCount
    /\ CountOf(calls, questions[qi]) = AttemptCount
    /\ coros[1].st = "inflight"
    /\ \A i \in 2..AttemptCount : coros[i].st = "done"

\* the record of a selected row has been written by this run
Written(id) == CountOf(writes, id) = 1 /\ id \in DOMAIN OutputDir

\* C22: in the sampling and the backfill stage, when a remote call has been
\* issued for a row, the record of every selected row before it has been
\* written; and wherever the run stands or was stopped, the records of
\* the selected rows it has passed are all present.
C22_WrittenBeforeNextTask ==
    (prog \in { "three_times", "fill_gaps" }) =>
        \A j \in DOMAIN questions :
            (CountOf(calls, questions[j]) > 0 \/ j = qi) =>
                \A i \in 1..(j - 1) :
                    questions[i] \in Selected => Written(questions[i])

\* C22 witness: a sampling run stopped during the calls of its second task,
\* with the record of the first task present.
C22_Witness ==
    /\ prog = "three_times" /\ pc = "killed"
    /\ qi = 2
    /\ CountOf(calls, questions[2]) > 0
    /\ questions[1] \in DOMAIN initial_answers

\* the opening marker at p starts a marker pair with a label of A..E, in
\* one of the two accepted forms
ValidPairAt(t, p) ==
    \E x \in Labels : TaggedBare(t, p, x) \/ TaggedWithPeriod(t, p, x)

\* C23 (as claimed): for a text with several marker pairs, each with a
\* label of A..E in one of the two accepted forms, extraction gives the
\* label of the earliest pair.
C23_FirstMatch ==
    Extracted =>
        LET t == TextOf(final_answers) IN
        (Cardinality(Opens(t)) >= 2 /\ \A p \in Opens(t) : ValidPairAt(t, p))
            => PersistedLabel = Some(t[Min(Opens(t)) + 1])

\* C24: a step of a backfill run with an allow-list writes no result for
\* an id outside the allow-list and leaves the result file of every such
\* id, present or absent, as it was.
C24_OutsideAllowListUnchanged ==
    [][ (prog = "fill_gaps" /\ video_ids # None) =>
           /\ \A id \in DOMAIN writes' : writes'[id] > 0 => id \in video_ids[1]
           /\ \A id \in (DOMAIN gpt4v_results \cup DOMAIN gpt4v_results') :
                 id \notin video_ids[1] =>
                    /\ id \in DOMAIN gpt4v_results /\ id \in DOMAIN gpt4v_results'
                    /\ gpt4v_results'[id] = gpt4v_results[id]
      ]_vars

\* C24 witness: a completed backfill that wrote the result of an id of the
\* allow-list while a row outside the allow-list, with frames, still has
\* its earlier successful result.
C24_Witness ==
    /\ prog = "fill_gaps" /\ Finished /\ video_ids # None
    /\ \E a, b \in RowIds :
          /\ a \notin video_ids[1] /\ a \in frames
          /\ a \in DOMAIN gpt4v_results /\ gpt4v_results[a] = PriorResult
          /\ b \in video_ids[1] /\ CountOf(writes, b) = 1
          /\ gpt4v_results[b] # PriorResult

\* C25: in the scripts that use the semaphore, the free permits plus the
\* calls in flight are K in every state, whether calls returned or raised,
\* and when every coroutine handed to gather has returned the free
\* permits are K again.
C25_PermitsConserved ==
    (prog \in { "three_times" } \cup ReasoningProgs) =>
        /\ permits + Cardinality(InFlight) = K
        /\ AllDone => permits = K

\* C25 witness: every coroutine of a batch has returned, one from a call
\* that raised and one from a call that answered, and all permits are free.
C25_Witness ==
    /\ prog \in { "three_times" } \cup ReasoningProgs
    /\ pc = "gather" /\ AllDone
    /\ permits = K
    /\ \E i, j \in DOMAIN coros :
          /\ coros[i].result[1] \in
                { SamplingFailure(coros[i].video_id, "APIError"),
                  ReasoningFailure(coros[i].video_id, "APIError") }
          /\ "answer" \in DOMAIN coros[j].result[1]

\* C26: in a reasoning run, whatever the order in which the calls return,
\* the coroutine of a task is the only one with its id, its prompt is
\* built from the task's own question and the task's own record in
\* initial_answers/, its result carries the task's id, and when the run
\* has completed the file saved under the id holds that result.
C26_ResultKeyedByOwnTask ==
    (prog \in ReasoningProgs) =>
        \A i \in DOMAIN coros :
            LET id == coros[i].video_id IN
            /\ \A j \in DOMAIN coros : j # i => coros[j].video_id # id
            /\ coros[i].prompt # None =>
                  coros[i].prompt[1] =
                     PromptOf(prog, ItemOf(prog, initial_answers, id)[1])
            /\ coros[i].result # None => coros[i].result[1].video_id = id
            /\ Finished => final_answers[id] = ResultToSave(coros[i].result[1])

\* C26 witness: a completed run of three_times_preview.py with two permits
\* and two tasks with different records, one saved with an answer and the
\* other with an error.
C26_Witness ==
    /\ prog = "three_times_preview" /\ Finished
    /\ K = 2
    /\ Len(coros) = 2
    /\ coros[1].input # coros[2].input
    /\ "error" \in DOMAIN final_answers[coros[1].video_id]
    /\ "answer" \in DOMAIN final_answers[coros[2].video_id]

\* C27: in the sampling stage every coroutine, and so every call in
\* flight, belongs to the row main is at, no call has been issued for a
\* later row, and the calls in flight are at most min(K, AttemptCount).
C27_SamplingTasksSerial ==
    prog = "three_times" =>
        /\ \A i \in DOMAIN coros : coros[i].video_id = questions[qi]
        /\ \A j \in DOMAIN questions : j > qi => CountOf(calls, questions[j]) = 0
        /\ Cardinality(InFlight) <= Min({ K, AttemptCount })

\* C27 witness: with K above the number of attempts, the second task has
\* all its calls in flight, fewer than K, after the first task was saved.
C27_Witness ==
    /\ prog = "three_times" /\ pc = "gather"
    /\ qi = 2
    /\ questions[1] \in DOMAIN initial_answers
    /\ Cardinality(InFlight) = AttemptCount
    /\ AttemptCount < K

====
